---- MODULE Spec2Model ----
(***************************************************************************)
(* Model of the curve / point / scalar substrate of redox-ecc:             *)
(*   src/src/montgomery/curve.rs   Montgomery curve, point decoding         *)
(*   src/src/montgomery/scalar.rs  scalars modulo the group order, Iterino  *)
(*   src/src/weierstrass/curve.rs  short Weierstrass curve                  *)
(* The library is a set of pure functions over immutable values.  The      *)
(* state of the model is the last call made on the library: its name, its  *)
(* arguments and the value (or failure) it produced.  A call that consumes *)
(* a value produced earlier (encode a constructed point, add to a scalar,  *)
(* advance an iterator) takes it from the previous result.                 *)
(***************************************************************************)
EXTENDS Integers, Sequences, FiniteSets, TLC

VARIABLES op, arg, res, out

vars == <<op, arg, res, out>>

(***************************************************************************)
(* Bounds of the model.                                                    *)
(***************************************************************************)
\* bytes of the buffers handed to decode range over 0..MaxByte
MaxByte == 7
\* buffers handed to decode have at most MaxBufLen bytes
MaxBufLen == 5
\* coordinates handed to the constructors of the large-field curve: 0..MaxElt
MaxElt == 7
\* integers handed to Scalar::new range over -MaxK..MaxK
MaxK == 6
\* width of usize in bits (the wrap-around of release builds is mod 2^UsizeBits)
UsizeBits == 16

(***************************************************************************)
(* Outcomes of a call: a value, an Err(io::Error) result, or a panic.      *)
(***************************************************************************)
Ok(v) == [tag |-> "Ok", val |-> v]
Err(m) == [tag |-> "Err", val |-> m]
Panic(m) == [tag |-> "Panic", val |-> m]

ERR_ECC_NEW == "not valid point"
ERR_BIN_OP == "elements of different groups"
ERR_SLICE == "range end index out of range for slice"
ERR_OVERFLOW == "attempt to subtract with overflow"

\* macros.rs: do_if_eq!(cond, body, error) evaluates to
\* body when cond holds and aborts with the error message otherwise.
do_if_eq(cond, body, error) == IF cond THEN Ok(body) ELSE Panic(error)

(***************************************************************************)
(* Prime field contract (field.rs, primefield.rs).  A field Fp   *)
(* is its modulus p; an element FpElt is an integer of 0..p-1.             *)
(***************************************************************************)
f_add(p, x, y) == (x + y) % p
f_sub(p, x, y) == (x - y) % p
f_mul(p, x, y) == (x * y) % p
f_neg(p, x) == (0 - x) % p
f_sq(p, x) == (x * x) % p
f_inv(p, x) == CHOOSE y \in 0..(p - 1) : x = 0 \/ (x * y) % p = 1
f_div(p, x, y) == f_mul(p, x, f_inv(p, y))

\* sqrt: some square root of a quadratic residue; for a non-residue the
\* contract leaves the returned element open, so every element is possible.
f_sqrt(p, v) ==
    LET roots == {y \in 0..(p - 1) : (y * y) % p = v}
    IN  IF roots # {} THEN roots ELSE 0..(p - 1)

\* sgn0: +1 for an even representative, -1 for an odd one
sgn0(p, x) == IF x % 2 = 0 THEN 1 ELSE -1

RECURSIVE ByteLen(_)
ByteLen(n) == IF n = 0 THEN 0 ELSE 1 + ByteLen(n \div 256)

\* size_bytes: number of bytes of the modulus
size_bytes(p) == ByteLen(p)

(***************************************************************************)
(* num-bigint conversions used by decode and encode.                       *)
(***************************************************************************)
RECURSIVE from_bytes_be(_)
from_bytes_be(bytes) ==
    IF bytes = <<>> THEN 0
    ELSE from_bytes_be(SubSeq(bytes, 1, Len(bytes) - 1)) * 256 + bytes[Len(bytes)]

RECURSIVE Pow(_, _)
Pow(b, e) == IF e = 0 THEN 1 ELSE b * Pow(b, e - 1)

to_bytes_be(x, size) == [i \in 1..size |-> (x \div Pow(256, size - i)) % 256]

(***************************************************************************)
(* Montgomery curves  b*y^2 = x^3 + a*x^2 + x.                              *)
(***************************************************************************)
MCurve(p, a, b, s, r, gx, gy, h) ==
    [f |-> p, a |-> a, b |-> b, s |-> s, r |-> r, gx |-> gx, gy |-> gy, h |-> h]

\* a curve over F_7 (one-byte coordinates) and one over F_257 (two-byte)
M7 == MCurve(7, 3, 1, 2, 3, 4, 2, 4)
M257 == MCurve(257, 5, 1, 2, 61, 13, 75, 4)

\* parameter tables differing from M7 in exactly one entry
M7_gy == MCurve(7, 3, 1, 2, 3, 4, 5, 4)
M7_gbad == MCurve(7, 3, 1, 2, 3, 4, 3, 4)
M7_r == MCurve(7, 3, 1, 2, 2, 4, 2, 4)
M7_h == MCurve(7, 3, 1, 2, 3, 4, 2, 2)
M7_s == MCurve(7, 3, 1, 3, 3, 4, 2, 4)
M7_a == MCurve(7, 4, 1, 2, 3, 4, 2, 4)
M7_b == MCurve(7, 3, 2, 2, 3, 4, 2, 4)

MontCurves == {M7, M257, M7_gy, M7_gbad, M7_r, M7_h, M7_s, M7_a, M7_b}
CodecCurves == {M7, M257}

ProyCoordinates(x, y, z) == [x |-> x, y |-> y, z |-> z]
Point(e, c) == [e |-> e, c |-> c]

\* the equation with the term a*x*z left out
is_on_curve_no_a(self, pt) ==
    LET p == self.f
        c == pt.c
        l == f_mul(p, f_mul(p, self.b, f_sq(p, c.y)), c.z)
        r == f_mul(p, c.x, f_add(p, f_sq(p, c.x), f_sq(p, c.z)))
    IN  f_sub(p, l, r) = 0

is_on_curve(self, pt) ==
    LET p == self.f
        c == pt.c
        l == f_mul(p, f_mul(p, self.b, f_sq(p, c.y)), c.z)
        r == f_mul(p, c.x,
                   f_add(p, f_add(p, f_sq(p, c.x),
                                     f_mul(p, f_mul(p, self.a, c.x), c.z)),
                            f_sq(p, c.z)))
        e == f_sub(p, l, r)
    IN  e = 0

new_proy_point(self, c) ==
    LET pt == Point(self, c)
    IN  do_if_eq(is_on_curve(self, pt), pt, ERR_ECC_NEW)

new_point(self, x, y) ==
    LET pt == Point(self, ProyCoordinates(x, y, 1))
    IN  do_if_eq(is_on_curve(self, pt), pt, ERR_ECC_NEW)

identity(self) == new_proy_point(self, ProyCoordinates(0, 1, 0))

get_generator(self) == new_proy_point(self, ProyCoordinates(self.gx, self.gy, 1))

\* a comparison of the field and the coefficients only
curve_eq_coeffs(c1, c2) ==
    /\ c1.f = c2.f
    /\ c1.a = c2.a
    /\ c1.b = c2.b
    /\ c1.s = c2.s

\* #[derive(PartialEq)] on Curve: every field is compared
curve_eq(c1, c2) ==
    /\ c1.f = c2.f
    /\ c1.a = c2.a
    /\ c1.b = c2.b
    /\ c1.s = c2.s
    /\ c1.r = c2.r
    /\ c1.gx = c2.gx
    /\ c1.gy = c2.gy
    /\ c1.h = c2.h

\* (s >> 1) & 0x1 on an i32: arithmetic shift, then the low bit
sign_bit(s) == (s \div 2) % 2

\* lines 153-156: the root is negated when the tag disagrees with its sign
fix_sign_flipped(p, tag, deser_tag, y_sqrt) ==
    IF tag = deser_tag THEN f_neg(p, y_sqrt) ELSE y_sqrt

fix_sign(p, tag, deser_tag, y_sqrt) ==
    IF tag # deser_tag THEN f_neg(p, y_sqrt) ELSE y_sqrt

\* the match on the tag, lines 108-160
decode_tag(self, buf, tag, x_val) ==
    LET size == size_bytes(self.f)
        blen == Len(buf)
        p == self.f
    IN
    CASE tag = 0 ->
           IF blen # 1
           THEN {Err("Point at infinity should just be a single zero byte")}
           ELSE {identity(self)}
      [] tag = 4 ->
           IF blen # 2 * size + 1
           THEN {Err("Invalid bytes for deserialization")}
           ELSE LET y_val == from_bytes_be(SubSeq(buf, size + 2, blen))
                IN  IF y_val >= p
                    THEN {Err("Invalid y coordinate")}
                    ELSE {new_point(self, x_val, y_val)}
      [] tag \in {2, 3} ->
           IF blen # size + 1
           THEN {Err("Invalid bytes for deserialization")}
           ELSE LET x == x_val
                    x_a == f_add(p, x, self.a)
                    xx_ax == f_mul(p, x_a, x)
                    xx_ax_1 == f_add(p, xx_ax, 1)
                    byy == f_mul(p, xx_ax_1, x)
                    b_inv == f_div(p, 1, self.b)
                    yy == f_mul(p, byy, b_inv)
                IN  { LET s == sgn0(p, y_sqrt)
                          deser_tag == sign_bit(s) + 2
                          y == fix_sign(p, tag, deser_tag, y_sqrt)
                      IN  new_point(self, x, y)
                      : y_sqrt \in f_sqrt(p, yy) }
      [] OTHER -> {Err("Invalid tag specified")}

\* decode with the tag examined before the range of x
decode_tag_first(self, buf) ==
    LET size == size_bytes(self.f)
        blen == Len(buf)
    IN
    IF ~(blen = 1 \/ blen = size + 1 \/ blen = 2 * size + 1)
    THEN {Err("Wrong input buffer size.")}
    ELSE IF size + 1 > blen
    THEN {Panic(ERR_SLICE)}
    ELSE
    LET tag == buf[1]
        x_val == from_bytes_be(SubSeq(buf, 2, size + 1))
    IN  IF tag \notin {0, 2, 3, 4}
        THEN {Err("Invalid tag specified")}
        ELSE IF x_val >= self.f
        THEN {Err("Invalid x coordinate")}
        ELSE decode_tag(self, buf, tag, x_val)

\* &buf[1..size + 1] panics when the buffer has fewer than size + 1 bytes
decode(self, buf) ==
    LET size == size_bytes(self.f)
        blen == Len(buf)
    IN
    IF ~(blen = 1 \/ blen = size + 1 \/ blen = 2 * size + 1)
    THEN {Err("Wrong input buffer size.")}
    ELSE IF size + 1 > blen
    THEN {Panic(ERR_SLICE)}
    ELSE
    LET tag == buf[1]
        x_val == from_bytes_be(SubSeq(buf, 2, size + 1))
    IN  IF x_val >= self.f
        THEN {Err("Invalid x coordinate")}
        ELSE decode_tag(self, buf, tag, x_val)

(***************************************************************************)
(* Point equality and encoding (montgomery/point.rs).  *)
(***************************************************************************)
point_eq(P, Q) ==
    /\ curve_eq(P.e, Q.e)
    /\ f_mul(P.e.f, P.c.x, Q.c.z) = f_mul(P.e.f, Q.c.x, P.c.z)
    /\ f_mul(P.e.f, P.c.y, Q.c.z) = f_mul(P.e.f, Q.c.y, P.c.z)

encode(P, compress) ==
    LET p == P.e.f
        size == size_bytes(p)
        x == f_div(p, P.c.x, P.c.z)
        y == f_div(p, P.c.y, P.c.z)
    IN  IF P.c.z = 0 THEN <<0>>
        ELSE IF ~compress
        THEN <<4>> \o to_bytes_be(x, size) \o to_bytes_be(y, size)
        ELSE <<2 + sign_bit(sgn0(p, y))>> \o to_bytes_be(x, size)

(***************************************************************************)
(* Short Weierstrass curves  y^2 = x^3 + a*x + b.                           *)
(***************************************************************************)
WCurve(p, a, b, r, gx, gy, h) ==
    [f |-> p, a |-> a, b |-> b, r |-> r, gx |-> gx, gy |-> gy, h |-> h]

W7 == WCurve(7, 0, 3, 13, 1, 2, 1)
W5 == WCurve(5, 2, 1, 7, 0, 1, 1)
W7_gx == WCurve(7, 0, 3, 13, 2, 2, 1)
W7_gbad == WCurve(7, 0, 3, 13, 1, 3, 1)
W7_r == WCurve(7, 0, 3, 11, 1, 2, 1)
W7_h == WCurve(7, 0, 3, 13, 1, 2, 2)
W7_a == WCurve(7, 1, 3, 13, 1, 2, 1)

WeierCurves == {W7, W5, W7_gx, W7_gbad, W7_r, W7_h, W7_a}

w_is_on_curve(self, pt) ==
    LET p == self.f
        c == pt.c
        x3 == f_mul(p, c.x, f_sq(p, c.x))
        bz == f_mul(p, self.b, c.z)
        ax == f_mul(p, self.a, c.x)
        zz == f_mul(p, c.z, f_add(p, ax, bz))
        zy == f_mul(p, c.z, f_sub(p, zz, f_sq(p, c.y)))
        eq == f_add(p, x3, zy)
    IN  eq = 0

w_new_point(self, c) ==
    LET pt == Point(self, c)
    IN  do_if_eq(w_is_on_curve(self, pt), pt, ERR_ECC_NEW)

w_identity(self) == w_new_point(self, ProyCoordinates(0, 1, 0))

w_get_generator(self) == w_new_point(self, ProyCoordinates(self.gx, self.gy, 1))

\* #[derive(PartialEq)] on the Weierstrass Curve: every field is compared
w_curve_eq(c1, c2) ==
    /\ c1.f = c2.f
    /\ c1.a = c2.a
    /\ c1.b = c2.b
    /\ c1.r = c2.r
    /\ c1.gx = c2.gx
    /\ c1.gy = c2.gy
    /\ c1.h = c2.h

(***************************************************************************)
(* Scalars: an integer k reduced modulo the group order r.                 *)
(***************************************************************************)
Scalar(k, r) == [k |-> k, r |-> r]

Abs(n) == IF n < 0 THEN 0 - n ELSE n

\* the remainder of the division truncated toward zero (the sign of k)
mod_trunc(k, r) == IF k < 0 THEN 0 - (Abs(k) % r) ELSE k % r

\* k.mod_floor(&r) for a positive r: the remainder of the magnitudes,
\* moved into [0, r) when k is negative
mod_floor(k, r) ==
    LET m == Abs(k) % r
    IN  IF k >= 0 THEN m
        ELSE IF m = 0 THEN 0
        ELSE r - m

Scalar_new(k, r) == Scalar(mod_floor(k, r), r)

new_scalar(self, k) == Scalar_new(k, self.r)

red(self, k) == Scalar(mod_floor(k, self.r), self.r)

neg_mod(self) == red(self, 0 - self.k)

add_mod(self, other) == red(self, self.k + other.k)

sub_mod(self, other) == red(self, self.k - other.k)

mul_mod(self, other) == red(self, self.k * other.k)

\* an addition that does not compare the moduli
add_unchecked(self, other) == Ok(add_mod(self, other))

\* impl_binary_op!(Scalar, Add, add, add_mod, r, ERR_BIN_OP) and its siblings
add(self, other) == do_if_eq(self.r = other.r, add_mod(self, other), ERR_BIN_OP)

sub(self, other) == do_if_eq(self.r = other.r, sub_mod(self, other), ERR_BIN_OP)

mul(self, other) == do_if_eq(self.r = other.r, mul_mod(self, other), ERR_BIN_OP)

\* impl_unary_op!(Scalar, Neg, neg, neg_mod)
neg(self) == Ok(neg_mod(self))

(***************************************************************************)
(* Iterino: the bit cursor behind iter_lr and iter_rl.                     *)
(***************************************************************************)
DigitBits == 32

\* BigInt::bits: the number of bits of the magnitude, 0 for zero
RECURSIVE bits(_)
bits(k) == IF k = 0 THEN 0 ELSE 1 + bits(Abs(k) \div 2)

\* k shifted right by one u32 digit
ShrDigit(k) == (k \div 65536) \div 65536

\* BigInt::to_u32_digits: the magnitude in base 2^32, least significant first
RECURSIVE to_u32_digits(_)
to_u32_digits(k) ==
    LET m == Abs(k)
    IN  IF m = 0 THEN <<>>
        ELSE IF ShrDigit(m) = 0 THEN <<m>>
        ELSE <<m - ShrDigit(m) * 65536 * 65536>> \o to_u32_digits(ShrDigit(m))

UsizeMod == Pow(2, UsizeBits)

Some(b) == [some |-> TRUE, b |-> b]
None == [some |-> FALSE]

Iterino(l, i, v, is_lr) == [l |-> l, i |-> i, v |-> v, is_lr |-> is_lr]

\* l - 1usize: with overflow checks (debug builds) the subtraction panics when
\* l = 0, without them (release builds) it wraps
iter_lr(self) ==
    LET l == bits(self.k)
        v == to_u32_digits(self.k)
    IN  IF l = 0
        THEN {Panic(ERR_OVERFLOW), Ok(Iterino(l, (l - 1) % UsizeMod, v, TRUE))}
        ELSE {Ok(Iterino(l, l - 1, v, TRUE))}

iter_rl(self) ==
    LET l == bits(self.k)
        v == to_u32_digits(self.k)
    IN  {Ok(Iterino(l, 0, v, FALSE))}

\* Iterator::next: the item and the cursor after the call
next(it) ==
    IF it.i < it.l
    THEN LET bit == it.v[(it.i \div DigitBits) + 1] \div Pow(2, it.i % DigitBits)
             b == (bit % 2) # 0
         IN  IF it.is_lr
             THEN [item |-> Some(b), it |-> [it EXCEPT !.i = (it.i - 1) % UsizeMod]]
             ELSE [item |-> Some(b), it |-> [it EXCEPT !.i = it.i + 1]]
    ELSE [item |-> None, it |-> it]

(***************************************************************************)
(* Inputs of the calls.                                                    *)
(***************************************************************************)
Min(a, b) == IF a < b THEN a ELSE b

Bytes == 0..MaxByte

Buffers == UNION {[1..n -> Bytes] : n \in 0..MaxBufLen}

\* coordinates handed to the constructors: x and z are small, y is any element
SmallElts(e) == 0..Min(e.f - 1, MaxElt)
Elts(e) == 0..(e.f - 1)

Ints == (0 - MaxK)..MaxK

NoRes == [tag |-> "None", val |-> <<>>]
NoOut == [bits |-> <<>>, done |-> FALSE]

PointOps == {"new_point", "new_proy_point", "identity", "get_generator", "decode"}
WPointOps == {"w_new_point", "w_identity", "w_get_generator"}
ScalarOps == {"new_scalar", "add", "sub", "mul", "neg"}
IterOps == {"iter_lr", "iter_rl", "next"}

(***************************************************************************)
(* The state machine: one action per library call.                         *)
(***************************************************************************)
Init ==
    /\ op = "idle"
    /\ arg = <<>>
    /\ res = NoRes
    /\ out = NoOut

Call(name, a, r) ==
    /\ op' = name
    /\ arg' = a
    /\ res' = r
    /\ out' = NoOut

Return ==
    /\ op # "idle"
    /\ op' = "idle"
    /\ arg' = <<>>
    /\ res' = NoRes
    /\ out' = NoOut

NewPoint ==
    /\ op = "idle"
    /\ \E e \in MontCurves : \E x \in SmallElts(e), y \in Elts(e) :
          Call("new_point", [e |-> e, c |-> ProyCoordinates(x, y, 1)],
               new_point(e, x, y))

NewProyPoint ==
    /\ op = "idle"
    /\ \E e \in MontCurves : \E x \in SmallElts(e), y \in Elts(e), z \in SmallElts(e) :
          Call("new_proy_point", [e |-> e, c |-> ProyCoordinates(x, y, z)],
               new_proy_point(e, ProyCoordinates(x, y, z)))

Identity ==
    /\ op = "idle"
    /\ \E e \in MontCurves : Call("identity", [e |-> e], identity(e))

GetGenerator ==
    /\ op = "idle"
    /\ \E e \in MontCurves : Call("get_generator", [e |-> e], get_generator(e))

Decode ==
    /\ op = "idle"
    /\ \E e \in CodecCurves, buf \in Buffers : \E r \in decode(e, buf) :
          Call("decode", [e |-> e, buf |-> buf, rt |-> FALSE], r)

\* encode a point that an earlier call produced
Encode ==
    /\ op \in PointOps
    /\ res.tag = "Ok"
    /\ \E compress \in BOOLEAN :
          Call("encode", [p |-> res.val, compress |-> compress],
               Ok(encode(res.val, compress)))

\* decode, on the point's curve, the bytes that encode produced
DecodeEncoded ==
    /\ op = "encode"
    /\ \E r \in decode(arg.p.e, res.val) :
          Call("decode", [e |-> arg.p.e, buf |-> res.val, rt |-> TRUE,
                          src |-> arg.p, compress |-> arg.compress], r)

CurveEq ==
    /\ op = "idle"
    /\ \E c1 \in MontCurves, c2 \in MontCurves :
          Call("curve_eq", [c1 |-> c1, c2 |-> c2], Ok(curve_eq(c1, c2)))

WNewPoint ==
    /\ op = "idle"
    /\ \E e \in WeierCurves : \E x \in Elts(e), y \in Elts(e), z \in Elts(e) :
          Call("w_new_point", [e |-> e, c |-> ProyCoordinates(x, y, z)],
               w_new_point(e, ProyCoordinates(x, y, z)))

WIdentity ==
    /\ op = "idle"
    /\ \E e \in WeierCurves : Call("w_identity", [e |-> e], w_identity(e))

WGetGenerator ==
    /\ op = "idle"
    /\ \E e \in WeierCurves : Call("w_get_generator", [e |-> e], w_get_generator(e))

WCurveEq ==
    /\ op = "idle"
    /\ \E c1 \in WeierCurves, c2 \in WeierCurves :
          Call("w_curve_eq", [c1 |-> c1, c2 |-> c2], Ok(w_curve_eq(c1, c2)))

NewScalar ==
    /\ op = "idle"
    /\ \E e \in MontCurves, k \in Ints :
          Call("new_scalar", [k |-> k, r |-> e.r], Ok(new_scalar(e, k)))

\* the right operand of a binary operation is a freshly built scalar
Operands == {new_scalar(e, k) : e \in MontCurves, k \in Ints}

ScalarAdd ==
    /\ op \in ScalarOps
    /\ res.tag = "Ok"
    /\ \E b \in Operands : Call("add", [a |-> res.val, b |-> b], add(res.val, b))

ScalarSub ==
    /\ op \in ScalarOps
    /\ res.tag = "Ok"
    /\ \E b \in Operands : Call("sub", [a |-> res.val, b |-> b], sub(res.val, b))

ScalarMul ==
    /\ op \in ScalarOps
    /\ res.tag = "Ok"
    /\ \E b \in Operands : Call("mul", [a |-> res.val, b |-> b], mul(res.val, b))

ScalarNeg ==
    /\ op \in ScalarOps
    /\ res.tag = "Ok"
    /\ Call("neg", [a |-> res.val], neg(res.val))

IterLr ==
    /\ op \in ScalarOps
    /\ res.tag = "Ok"
    /\ \E r \in iter_lr(res.val) : Call("iter_lr", [s |-> res.val], r)

IterRl ==
    /\ op \in ScalarOps
    /\ res.tag = "Ok"
    /\ \E r \in iter_rl(res.val) : Call("iter_rl", [s |-> res.val], r)

\* one call of next on the iterator; the items it yields are collected in out
IterNext ==
    /\ op \in IterOps
    /\ res.tag = "Ok"
    /\ ~out.done
    /\ LET n == next(res.val)
       IN  /\ op' = "next"
           /\ arg' = arg
           /\ res' = Ok(n.it)
           /\ out' = IF n.item.some
                     THEN [out EXCEPT !.bits = Append(@, n.item.b)]
                     ELSE [out EXCEPT !.done = TRUE]

Next ==
    \/ NewPoint
    \/ NewProyPoint
    \/ Identity
    \/ GetGenerator
    \/ Decode
    \/ Encode
    \/ DecodeEncoded
    \/ CurveEq
    \/ WNewPoint
    \/ WIdentity
    \/ WGetGenerator
    \/ WCurveEq
    \/ NewScalar
    \/ ScalarAdd
    \/ ScalarSub
    \/ ScalarMul
    \/ ScalarNeg
    \/ IterLr
    \/ IterRl
    \/ IterNext
    \/ Return

Spec == Init /\ [][Next]_vars

(***************************************************************************)
(* Definitions used to state the properties.                               *)
(***************************************************************************)
\* the projective Montgomery equation b*y^2*z = x^3 + a*x^2*z + x*z^2 over the integers
MontEquation(e, c) ==
    (e.b * c.y * c.y * c.z
       - (c.x * c.x * c.x + e.a * c.x * c.x * c.z + c.x * c.z * c.z)) % e.f = 0

\* the projective Weierstrass equation y^2*z = x^3 + a*x*z^2 + b*z^3 over the integers
WeierEquation(e, c) ==
    (c.y * c.y * c.z
       - (c.x * c.x * c.x + e.a * c.x * c.z * c.z + e.b * c.z * c.z * c.z)) % e.f = 0

\* the error kind that a message of decode stands for
Kind(m) ==
    CASE m = "Wrong input buffer size." -> "InvalidLength"
      [] m = "Point at infinity should just be a single zero byte" -> "InvalidLength"
      [] m = "Invalid bytes for deserialization" -> "InvalidLength"
      [] m = "Invalid x coordinate" -> "InvalidCoordinate"
      [] m = "Invalid y coordinate" -> "InvalidCoordinate"
      [] m = "Invalid tag specified" -> "InvalidTag"
      [] m = ERR_ECC_NEW -> "InvalidPoint"
      [] OTHER -> "Other"

Size(e) == size_bytes(e.f)
XOf(e, buf) == from_bytes_be(SubSeq(buf, 2, Size(e) + 1))
YOf(e, buf) == from_bytes_be(SubSeq(buf, Size(e) + 2, 2 * Size(e) + 1))

\* the checks of decode, each stated on the buffer alone
BadLength(e, buf) == Len(buf) \notin {1, Size(e) + 1, 2 * Size(e) + 1}
BadX(e, buf) == Len(buf) >= Size(e) + 1 /\ XOf(e, buf) >= e.f
BadTag(e, buf) == Len(buf) >= 1 /\ buf[1] \notin {0, 2, 3, 4}
BadTagLength(e, buf) ==
    /\ Len(buf) >= 1
    /\ \/ buf[1] = 0 /\ Len(buf) # 1
       \/ buf[1] = 4 /\ Len(buf) # 2 * Size(e) + 1
       \/ buf[1] \in {2, 3} /\ Len(buf) # Size(e) + 1
Uncompressed(e, buf) == Len(buf) = 2 * Size(e) + 1 /\ buf[1] = 4 /\ XOf(e, buf) < e.f
Compressed(e, buf) == Len(buf) = Size(e) + 1 /\ buf[1] \in {2, 3} /\ XOf(e, buf) < e.f
BadY(e, buf) == Uncompressed(e, buf) /\ YOf(e, buf) >= e.f
NotMember(e, buf) ==
    \/ /\ Uncompressed(e, buf)
       /\ YOf(e, buf) < e.f
       /\ ~MontEquation(e, ProyCoordinates(XOf(e, buf), YOf(e, buf), 1))
    \/ /\ Compressed(e, buf)
       /\ \A y \in 0..(e.f - 1) : ~MontEquation(e, ProyCoordinates(XOf(e, buf), y, 1))

Violations(e, buf) ==
    {n \in {"length", "x", "tag", "taglength", "y", "member"} :
        \/ n = "length" /\ BadLength(e, buf)
        \/ n = "x" /\ BadX(e, buf)
        \/ n = "tag" /\ BadTag(e, buf)
        \/ n = "taglength" /\ BadTagLength(e, buf)
        \/ n = "y" /\ BadY(e, buf)
        \/ n = "member" /\ NotMember(e, buf)}

\* the kind of the first failing check in the order length, coordinate range,
\* tag (with the length the tag requires and the range of y), membership
FirstKind(e, buf) ==
    IF BadLength(e, buf) THEN "InvalidLength"
    ELSE IF BadX(e, buf) THEN "InvalidCoordinate"
    ELSE IF BadTag(e, buf) THEN "InvalidTag"
    ELSE IF BadTagLength(e, buf) THEN "InvalidLength"
    ELSE IF BadY(e, buf) THEN "InvalidCoordinate"
    ELSE "InvalidPoint"

\* v is the floor-mod of the integer n by r: the one v of [0, r) with r | n - v
IsFloorMod(n, r, v) ==
    /\ v \in 0..(r - 1)
    /\ \E q \in (0 - Abs(n) - 1)..(Abs(n) + 1) : n = q * r + v

\* the exact integer result of the scalar operation of the current state
Exact ==
    CASE op = "new_scalar" -> arg.k
      [] op = "add" -> arg.a.k + arg.b.k
      [] op = "sub" -> arg.a.k - arg.b.k
      [] op = "mul" -> arg.a.k * arg.b.k
      [] op = "neg" -> 0 - arg.a.k

\* the number of bits of k >= 0 and the integer a most-significant-first
\* sequence of booleans stands for
BitLength(k) == CHOOSE n \in 0..31 : Pow(2, n) > k /\ (n = 0 \/ Pow(2, n - 1) <= k)

RECURSIVE FromBits(_)
FromBits(bs) ==
    IF bs = <<>> THEN 0
    ELSE 2 * FromBits(SubSeq(bs, 1, Len(bs) - 1)) + (IF bs[Len(bs)] THEN 1 ELSE 0)

Reverse(bs) == [j \in 1..Len(bs) |-> bs[Len(bs) + 1 - j]]

(***************************************************************************)
(* The properties.                                                         *)
(***************************************************************************)
\* C1: decoding the encoding of a valid non-infinity point, compressed or
\* not, gives a point equal to it that is on the curve; the encoding has
\* size+1 bytes when compressed and 2*size+1 bytes otherwise.
C1_RoundTrip ==
    (op = "decode" /\ arg.rt /\ arg.src.c.z # 0) =>
        /\ Len(arg.buf) = (IF arg.compress THEN Size(arg.e) + 1 ELSE 2 * Size(arg.e) + 1)
        /\ res.tag = "Ok"
        /\ point_eq(res.val, arg.src)
        /\ is_on_curve(arg.e, res.val)

\* a compressed round trip on the two-byte field of a point with z # 1 and tag 0x03
C1_Witness ==
    /\ op = "decode"
    /\ arg.rt
    /\ arg.compress
    /\ arg.e = M257
    /\ arg.src.c.z \notin {0, 1}
    /\ arg.buf[1] = 3
    /\ res.tag = "Ok"

\* C2: decode of the one-byte buffer [0x00] returns the identity (0:1:0).
C2_DecodeZeroByte ==
    (op = "decode" /\ arg.buf = <<0>> /\ Size(arg.e) >= 1) =>
        /\ res.tag = "Ok"
        /\ res.val = Point(arg.e, ProyCoordinates(0, 1, 0))

\* C3: a buffer of accepted length and tag whose in-range coordinates are not
\* a point of the curve makes decode return the InvalidPoint error result.
C3_InvalidPointIsError ==
    (op = "decode" /\ NotMember(arg.e, arg.buf)) =>
        /\ res.tag = "Err"
        /\ Kind(res.val) = "InvalidPoint"

\* C4: decode fails with InvalidTag when the leading byte is not one of
\* 0x00, 0x02, 0x03, 0x04 (stated for the buffers that pass the checks made
\* before the tag is examined: the length and the range of x).
C4_InvalidTag ==
    (op = "decode" /\ BadTag(arg.e, arg.buf)
        /\ ~BadLength(arg.e, arg.buf) /\ ~BadX(arg.e, arg.buf)) =>
        /\ res.tag = "Err"
        /\ Kind(res.val) = "InvalidTag"

\* C5: a buffer that violates more than one check of decode is rejected with
\* the first failing check in the order length, coordinate range, tag,
\* membership; a buffer that violates any check yields no point.
C5_FirstFailingCheck ==
    op = "decode" =>
        /\ Cardinality(Violations(arg.e, arg.buf)) >= 2 =>
              /\ res.tag = "Err"
              /\ Kind(res.val) = FirstKind(arg.e, arg.buf)
        /\ Violations(arg.e, arg.buf) # {} => res.tag # "Ok"

\* a buffer of accepted length with x out of range and an unknown tag
C5_Witness ==
    /\ op = "decode"
    /\ ~BadLength(arg.e, arg.buf)
    /\ BadX(arg.e, arg.buf)
    /\ BadTag(arg.e, arg.buf)
    /\ res.tag = "Err"

\* C6: every point that new_point, new_proy_point, identity, get_generator
\* or decode returns satisfies the projective equation of its curve.
C6_PointsOnCurve ==
    /\ (op \in PointOps /\ res.tag = "Ok") =>
          /\ res.val.e = arg.e
          /\ MontEquation(res.val.e, res.val.c)
    /\ (op \in WPointOps /\ res.tag = "Ok") =>
          /\ res.val.e = arg.e
          /\ WeierEquation(res.val.e, res.val.c)

\* a projective point with z outside {0, 1} was constructed
C6_Witness ==
    /\ op = "new_proy_point"
    /\ res.tag = "Ok"
    /\ res.val.c.z \notin {0, 1}

\* C7: every scalar that Scalar::new, add, sub, mul or neg produces holds the
\* floor-mod by r of the exact integer result, a value of [0, r).
C7_ScalarReduced ==
    (op \in ScalarOps /\ res.tag = "Ok") =>
        /\ res.val.r = (IF op = "new_scalar" THEN arg.r ELSE arg.a.r)
        /\ IsFloorMod(Exact, res.val.r, res.val.k)

\* a subtraction whose exact result is negative, on a result of an earlier operation
C7_Witness ==
    /\ op = "sub"
    /\ res.tag = "Ok"
    /\ arg.a.k - arg.b.k < 0
    /\ arg.a.k > 0

\* C8: for every scalar, 0 included, iter_lr and iter_rl give an iterator
\* that yields bit-length(k) booleans and ends, from which k is rebuilt.
C8_BitIterators ==
    /\ op \in {"iter_lr", "iter_rl"} => res.tag = "Ok"
    /\ (op \in IterOps /\ res.tag = "Ok" /\ out.done) =>
          /\ Len(out.bits) = BitLength(arg.s.k)
          /\ res.val.is_lr => FromBits(out.bits) = arg.s.k
          /\ ~res.val.is_lr => FromBits(Reverse(out.bits)) = arg.s.k

\* C9: add, sub and mul of two scalars of different moduli fail with the
\* group-mismatch failure and produce no scalar.
C9_GroupMismatch ==
    (op \in {"add", "sub", "mul"} /\ arg.a.r # arg.b.r) =>
        res = Panic(ERR_BIN_OP)

\* an addition of scalars of different moduli was attempted
C9_Witness ==
    /\ op = "add"
    /\ arg.a.r # arg.b.r
    /\ res.tag = "Panic"

\* C10 as stated: two curves are equal iff field and coefficients match.
C10_EqualIffCoefficients ==
    /\ op = "curve_eq" =>
          (res.val <=> (arg.c1.f = arg.c2.f /\ arg.c1.a = arg.c2.a
                           /\ arg.c1.b = arg.c2.b /\ arg.c1.s = arg.c2.s))
    /\ op = "w_curve_eq" =>
          (res.val <=> (arg.c1.f = arg.c2.f /\ arg.c1.a = arg.c2.a
                           /\ arg.c1.b = arg.c2.b))

\* C10 amended: two curves of the same model are equal iff all their
\* components match: field, coefficients, order, generator and cofactor.
C10_EqualIffAllFields ==
    op \in {"curve_eq", "w_curve_eq"} => (res.val <=> (arg.c1 = arg.c2))

\* two curves that differ in the generator only compare unequal
C10_Witness ==
    /\ op = "curve_eq"
    /\ arg.c1 = M7
    /\ arg.c2 = M7_gy
    /\ res.val = FALSE

\* the iterators are right on every scalar but 0 under iter_lr
IteratorsRightButZeroLr ==
    /\ (op = "iter_lr" /\ arg.s.k # 0) => res.tag = "Ok"
    /\ op = "iter_rl" => res.tag = "Ok"
    /\ (op \in IterOps /\ res.tag = "Ok" /\ out.done) =>
          /\ Len(out.bits) = BitLength(arg.s.k)
          /\ res.val.is_lr => FromBits(out.bits) = arg.s.k
          /\ ~res.val.is_lr => FromBits(Reverse(out.bits)) = arg.s.k

====
